---- MODULE Spec2Model ----
(***************************************************************************)
(* Model of gametrack_data.py: the export run of main() (extract the      *)
(* store, reconcile against the knowledge base, write the CSV file and    *)
(* the metrics file, publish to the "data" branch of a remote             *)
(* repository), with several runs sharing one remote repository.          *)
(***************************************************************************)
EXTENDS FiniteSets, Integers, Sequences, TLC

\* --------------------------------------------------------------- bounds
\* Number of export runs that share the remote repository.
NumRuns == 2
\* Longest store (rows of ZGAME) of the single-run specifications.
MaxRows == 3
\* Longest store of the metrics specification.
MaxGames == 2
\* Longest binding list the knowledge base answers with.
MaxBindings == 2
\* Remote calls that may fail (network, timeout, non-2xx) in one behaviour.
MaxFaults == 1

Runs == 1..NumRuns

\* ------------------------------------------------------ program constants
\* GAME_STATUS_ENUM: status code -> status literal (a Python dict).
GAME_STATUS_ENUM ==
    (1 :> "In Progress") @@ (2 :> "Queued") @@ (3 :> "Collection") @@
    (4 :> "Completed") @@ (5 :> "Abandoned") @@ (6 :> "Wanted")

\* GAME_STATUS_ENUM.values()
GAME_STATUS == {GAME_STATUS_ENUM[c] : c \in DOMAIN GAME_STATUS_ENUM}

RATINGS_ENUM == 1..10

\* The columns of GAME_FIELDS the model carries, in GAME_FIELDS order.
GAME_FIELDS ==
    <<"igdb_id", "wikidata_qid", "release_year", "owned_platform",
      "status", "game_state", "user_rating">>

\* ---------------------------------------------------------------- helpers
Range(s) == {s[i] : i \in DOMAIN s}

\* NULL of an integer column is carried as 0 and NULL of a text column as "",
\* the values the extractor defaults them to.

\* ------------------------------------------------- knowledge-base reconciler
\* The loop of _load_wikidata_items over data["results"]["bindings"]:
\* results[igdb_id] = qid, a later binding overwriting an earlier one.
RECURSIVE _load_wikidata_items_loop(_, _)
_load_wikidata_items_loop(bindings, results) ==
    IF bindings = <<>> THEN results
    ELSE LET row == Head(bindings)
             rest == [k \in DOMAIN results \ {row.igdb_id} |-> results[k]]
         IN _load_wikidata_items_loop(Tail(bindings),
                                      rest @@ (row.igdb_id :> row.item))

\* results: dict[int, str] = {} ... return results
_load_wikidata_items(bindings) ==
    _load_wikidata_items_loop(bindings, <<>>)

\* The VALUES clause of _SPARQL_QUERY: the endpoint answers only for the
\* identifiers the query names.
SparqlAnswer(kb, igdb_ids) ==
    SelectSeq(kb, LAMBDA b : b.igdb_id \in igdb_ids)

\* ------------------------------------------------------------ record extractor
\* One iteration of the row loop of _load_gametrack_games.
RowToGame(row, wikidata_items) ==
    [igdb_id        |-> row.ZGAMEID,
     wikidata_qid   |-> IF row.ZGAMEID \in DOMAIN wikidata_items
                        THEN wikidata_items[row.ZGAMEID] ELSE "",
     release_year   |-> row.ZRELEASEYEAR,
     owned_platform |-> row.ZOWNEDPLATFORM,
     status         |-> GAME_STATUS_ENUM[row.ZGAMESTATE],
     game_state     |-> row.ZGAMESTATE,
     user_rating    |-> row.ZUSERRATING]

\* GAME_STATUS_ENUM[row["ZGAMESTATE"]] raises KeyError on a code with no entry.
StatusMapped(row) == row.ZGAMESTATE \in DOMAIN GAME_STATUS_ENUM

\* The extractor as it would be with an unmapped row skipped.
RECURSIVE _load_gametrack_games_skip(_, _, _)
_load_gametrack_games_skip(rows, wikidata_items, yielded) ==
    IF rows = <<>> THEN [raised |-> FALSE, games |-> yielded]
    ELSE IF ~StatusMapped(Head(rows))
    THEN _load_gametrack_games_skip(Tail(rows), wikidata_items, yielded)
    ELSE _load_gametrack_games_skip(Tail(rows), wikidata_items,
                                    Append(yielded, RowToGame(Head(rows), wikidata_items)))

\* list(_load_gametrack_games()): the generator yields one record per row, in
\* row order, and the first unmapped status code raises out of list(), which
\* drops the records yielded so far.
RECURSIVE _load_gametrack_games(_, _, _)
_load_gametrack_games(rows, wikidata_items, yielded) ==
    IF rows = <<>> THEN [raised |-> FALSE, games |-> yielded]
    ELSE IF ~StatusMapped(Head(rows)) THEN [raised |-> TRUE, games |-> <<>>]
    ELSE _load_gametrack_games(Tail(rows), wikidata_items,
                               Append(yielded, RowToGame(Head(rows), wikidata_items)))

\* ------------------------------------------------------------------ CSV
\* writer.writerow(row): every field rendered as text.
CsvRow(game) ==
    <<ToString(game.igdb_id), game.wikidata_qid, ToString(game.release_year),
      game.owned_platform, game.status, ToString(game.game_state),
      ToString(game.user_rating)>>

\* _write_csv: the header, then one row per game; the text written.
_write_csv(games) ==
    <<GAME_FIELDS>> \o [i \in DOMAIN games |-> CsvRow(games[i])]

\* ------------------------------------------------------------ metrics aggregator
\* platforms = sorted(game["owned_platform"] for game in games)
MetricPlatforms(games) == {games[i].owned_platform : i \in DOMAIN games}

\* years = sorted(game["release_year"] for game in games)
MetricYears(games) == {games[i].release_year : i \in DOMAIN games}

\* The keys the initialisation loops give the dict counts: every status, every
\* year of the data, every platform of the data.
CountKeys_sparse(games) ==
    {<<games[i].release_year, games[i].owned_platform, games[i].status>> :
        i \in DOMAIN games}

CountKeys(games) ==
    {<<year, platform, status>> :
        year \in MetricYears(games), platform \in MetricPlatforms(games),
        status \in GAME_STATUS}

\* The keys the innermost loop gives the dict ratings: it runs inside the loop
\* over platforms, so only when there is a platform.
RatingKeys(games) ==
    IF MetricPlatforms(games) = {} THEN {}
    ELSE {<<rating, year>> : rating \in RATINGS_ENUM, year \in MetricYears(games)}

\* if user_rating := game["user_rating"]: a rating of 0 is falsy.
Rated_always(game) == TRUE

Rated(game) == game.user_rating # 0

\* d[key] += 1 on a Python dict: KeyError when the key is missing.
DictIncrement(d, key) == [d EXCEPT ![key] = @ + 1]

\* The aggregation loop of _write_prom_metrics, one game per iteration.
RECURSIVE MetricsLoop(_, _, _)
MetricsLoop(games, counts, ratings) ==
    IF games = <<>> THEN [raised |-> FALSE, counts |-> counts, ratings |-> ratings]
    ELSE LET game == Head(games)
             ckey == <<game.release_year, game.owned_platform, game.status>>
             rkey == <<game.user_rating, game.release_year>>
         IN IF ckey \notin DOMAIN counts
                \/ (Rated(game) /\ rkey \notin DOMAIN ratings)
            THEN [raised |-> TRUE, counts |-> counts, ratings |-> ratings]
            ELSE MetricsLoop(Tail(games),
                             DictIncrement(counts, ckey),
                             IF Rated(game) THEN DictIncrement(ratings, rkey)
                             ELSE ratings)

\* _write_prom_metrics: the two dicts as the loops leave them, the series
\* lines written (one per dict item) and the count returned.
_write_prom_metrics(games) ==
    LET agg == MetricsLoop(games,
                           [k \in CountKeys(games) |-> 0],
                           [k \in RatingKeys(games) |-> 0])
        count_series ==
            {[family |-> "gametrack_game_count", year |-> k[1],
              platform |-> k[2], status |-> k[3], value |-> agg.counts[k]] :
                k \in DOMAIN agg.counts}
        rating_series ==
            {[family |-> "gametrack_game_rating", year |-> k[2],
              rating |-> k[1], value |-> agg.ratings[k]] :
                k \in DOMAIN agg.ratings}
    IN [raised |-> agg.raised,
        series |-> IF agg.raised THEN {} ELSE count_series \cup rating_series,
        count  |-> IF agg.raised THEN 0
                   ELSE Cardinality(count_series) + Cardinality(rating_series)]

\* ------------------------------------------------------------ git object ids
\* The remote names a blob, a tree or a commit by a digest of its content: a
\* 40-digit sha, carried here as the kind of the object and what it was made of.
NoSha == <<"none">>

\* POST /git/blobs answers data["sha"], the digest of the content.
GitBlobSha(content) == <<"blob", content>>

\* POST /git/trees answers data["sha"], the digest of the entries.
GitTreeSha(tree) == <<"tree", tree>>

\* POST /git/commits answers data["sha"]; the commit carries the time it was
\* made, so every commit created is a new object: the n-th of the repository.
GitCommitSha(n) == <<"commit", n>>

\* tree: list[_GitTreeEntry] of _upload_github.
UploadTree(blob) ==
    <<[path |-> "games.csv", mode |-> "100644", type |-> "blob", sha |-> blob]>>

\* What one publish of these games leaves as the tree of the branch.
PublishedTree(games) == GitTreeSha(UploadTree(GitBlobSha(_write_csv(games))))

\* ------------------------------------------------------------------ state
VARIABLES
    store,                \* per run: the rows of ZGAME, ORDER BY ZGAMEID ASC
    args,                 \* per run: which options and credentials are set
    wikidata,             \* the knowledge base: the bindings it holds, in answer order
    pc,                   \* per run: the next step of main()
    wikidata_items,       \* per run: what _load_wikidata_items returned
    games,                \* per run: list(_load_gametrack_games())
    csvfile,              \* per run: the text of the --output-filename file
    metricsfile,          \* per run: the series of the --metrics-filename file
    exitcode,             \* per run: main's local exitcode
    error,                \* per run: the exception that ended the run, or "none"
    cause,                \* per run: what raised it (history)
    stderr,               \* per run: the messages written to sys.stderr
    log,                  \* per run: the remote calls made, oldest first (history)
    done_before,          \* per run: the runs that had ended when it began to publish (history)
    blob_sha,             \* per run: the sha _gh_create_blob returned
    previous_commit_sha,  \* per run: _gh_branch_sha(...)[0]
    previous_tree_sha,    \* per run: _gh_branch_sha(...)[1]
    new_tree_sha,         \* per run: the sha _gh_create_tree returned
    new_commit_sha,       \* per run: the sha _gh_create_commit returned
    result,               \* per run: what _gh_commit_tree returned
    branch,               \* remote: the commit refs/heads/data points to
    commits,              \* remote: the commit objects, in creation order
    trees,                \* remote: the tree objects
    blobs,                \* remote: the blob objects
    faults                \* remote calls that have failed so far

inputVars  == <<store, args, wikidata>>
localVars  == <<wikidata_items, games, csvfile, metricsfile>>
shaVars    == <<blob_sha, previous_commit_sha, previous_tree_sha, new_tree_sha,
                new_commit_sha, result>>
endVars    == <<exitcode, error, cause>>
remoteVars == <<branch, commits, trees, blobs>>
vars == <<inputVars, pc, localVars, endVars, stderr, log, done_before, shaVars,
          remoteVars, faults>>

\* -------------------------------------------------------------- input sets
\* The i-th row of a store: ZGAMEID ascending and unique.
RowsAt(i, states, years, platforms, ratings) ==
    [ZGAMEID : {10 * i}, ZGAMESTATE : states, ZRELEASEYEAR : years,
     ZOWNEDPLATFORM : platforms, ZUSERRATING : ratings]

StoresOfLen(n, states, years, platforms, ratings) ==
    {s \in [1..n -> UNION {RowsAt(i, states, years, platforms, ratings) : i \in 1..n}] :
        \A i \in 1..n : s[i].ZGAMEID = 10 * i}

Stores(lens, states, years, platforms, ratings) ==
    UNION {StoresOfLen(n, states, years, platforms, ratings) : n \in lens}

\* Status code 7 has no entry in GAME_STATUS_ENUM.
PublishStores == Stores(1..2, {4}, {2020}, {"PC"}, {7})
ExportStores  == Stores(0..MaxRows, {4, 7}, {2020}, {"PC"}, {7})
MetricStores  == Stores(0..MaxGames, {1, 4}, {2019, 2020}, {"PC", "Switch"}, {0, 7, 10})
WikidataStores == Stores(1..2, {4}, {2020}, {"PC"}, {7})
\* The datasets an earlier publish may have left on the branch.
SeedStores    == Stores(1..3, {4}, {2020}, {"PC"}, {7})

Bindings == [item : {"Q1", "Q2"}, igdb_id : {10, 20}]
KnowledgeBases == UNION {[1..n -> Bindings] : n \in 0..MaxBindings}

ArgSets == [output_filename : BOOLEAN, metrics_filename : BOOLEAN,
            github_repo : BOOLEAN, github_token : BOOLEAN]
PublishArgs == [output_filename |-> FALSE, metrics_filename |-> FALSE,
                github_repo |-> TRUE, github_token |-> TRUE]

\* The games a store with every status mapped extracts to.
GamesOf(s, kb) ==
    _load_gametrack_games(
        s, _load_wikidata_items(SparqlAnswer(kb, {s[i].ZGAMEID : i \in DOMAIN s})),
        <<>>).games

\* The exceptions urllib.request.urlopen raises: HTTPError on a non-2xx answer
\* (authorization, not found, conflict, validation), URLError on a network
\* failure or a timeout.
RemoteErrors == {"HTTPError", "URLError"}

FaultChoices == IF faults < MaxFaults THEN RemoteErrors ELSE {}

CauseOfFault(e) == IF e = "HTTPError" THEN "remote_http" ELSE "remote_network"

\* ------------------------------------------------------------------ remote
CommitOf(cs, sha) == cs[sha[2]]

\* Whether commit a is commit c or one of its ancestors.
RECURSIVE IsAncestor(_, _, _)
IsAncestor(cs, a, c) ==
    \/ a = c
    \/ \E i \in DOMAIN CommitOf(cs, c).parents :
            IsAncestor(cs, a, CommitOf(cs, c).parents[i])

\* body={"sha": commit_sha, "force": False} of _gh_update_branch.
UpdateBranchForce_true == TRUE

UpdateBranchForce == FALSE

\* The remote's answer to an update of refs/heads/data: without force only a
\* fast-forward of the present tip is accepted.
RefUpdateAccepted(force, cs, tip, commit_sha) ==
    force \/ IsAncestor(cs, tip, commit_sha)

\* if previous_tree_sha == new_tree_sha: of _gh_commit_tree.
TreeUnchanged_vsCommit(prev_commit, prev_tree, new_tree) == prev_commit = new_tree

TreeUnchanged(prev_commit, prev_tree, new_tree) == prev_tree = new_tree

\* The order of the remote calls of _upload_github and _gh_commit_tree: the step
\* that follows each call when it succeeds and the tree has changed.
NextStep_treeFirst(step) ==
    CASE step = "create_blob"   -> "create_tree"
      [] step = "create_tree"   -> "get_ref"
      [] step = "get_ref"       -> "get_commit"
      [] step = "get_commit"    -> "create_commit"
      [] step = "create_commit" -> "update_ref"

NextStep(step) ==
    CASE step = "create_blob"   -> "get_ref"
      [] step = "get_ref"       -> "get_commit"
      [] step = "get_commit"    -> "create_tree"
      [] step = "create_tree"   -> "create_commit"
      [] step = "create_commit" -> "update_ref"

\* return previous_commit_sha, the unchanged-tree return of _gh_commit_tree.
UnchangedReturn_tree(prev_commit, new_tree) == new_tree

UnchangedReturn(prev_commit, new_tree) == prev_commit

\* parents=[parent_sha] of _gh_create_commit, parent_sha=previous_commit_sha.
CommitParents_tip(prev_commit) == <<branch>>

CommitParents(prev_commit) == <<prev_commit>>

\* -------------------------------------------------------------------- Init
NotWritten == [written |-> FALSE]

InitRun ==
    /\ wikidata_items = [r \in Runs |-> <<>>]
    /\ games = [r \in Runs |-> <<>>]
    /\ csvfile = [r \in Runs |-> NotWritten]
    /\ metricsfile = [r \in Runs |-> NotWritten]
    /\ exitcode = [r \in Runs |-> 1]
    /\ error = [r \in Runs |-> "none"]
    /\ cause = [r \in Runs |-> "none"]
    /\ stderr = [r \in Runs |-> <<>>]
    /\ log = [r \in Runs |-> <<>>]
    /\ done_before = [r \in Runs |-> {}]
    /\ blob_sha = [r \in Runs |-> NoSha]
    /\ previous_commit_sha = [r \in Runs |-> NoSha]
    /\ previous_tree_sha = [r \in Runs |-> NoSha]
    /\ new_tree_sha = [r \in Runs |-> NoSha]
    /\ new_commit_sha = [r \in Runs |-> NoSha]
    /\ result = [r \in Runs |-> NoSha]
    /\ faults = 0

\* The repository as an earlier publish of the games seed left it.
InitRemote(seed) ==
    /\ commits = <<[tree |-> PublishedTree(seed), parents |-> <<>>,
                    message |-> "Update data"]>>
    /\ branch = GitCommitSha(1)
    /\ trees = {PublishedTree(seed)}
    /\ blobs = {GitBlobSha(_write_csv(seed))}

\* One run of main() on the store s with the options a; the other runs never start.
InitSingle(s, a) ==
    /\ store = [r \in Runs |-> IF r = 1 THEN s ELSE <<>>]
    /\ args = [r \in Runs |-> IF r = 1 THEN a ELSE PublishArgs]
    /\ pc = [r \in Runs |-> IF r = 1 THEN "load" ELSE "idle"]

\* Every run publishes; the runs share the repository and may interleave.
Init ==
    /\ store \in [Runs -> PublishStores]
    /\ args = [r \in Runs |-> PublishArgs]
    /\ wikidata = <<>>
    /\ pc = [r \in Runs |-> "load"]
    /\ \E seed \in SeedStores : InitRemote(GamesOf(seed, wikidata))
    /\ InitRun

\* One run, every store up to MaxRows rows and every combination of options.
InitExport ==
    /\ wikidata \in {<<>>, <<[item |-> "Q1", igdb_id |-> 10]>>}
    /\ \E s \in ExportStores, a \in ArgSets : InitSingle(s, a)
    /\ \E seed \in SeedStores : InitRemote(GamesOf(seed, wikidata))
    /\ InitRun

\* One run writing the metrics file, every store up to MaxGames rows.
InitMetrics ==
    /\ wikidata = <<>>
    /\ \E s \in MetricStores, a \in {x \in ArgSets : x.metrics_filename /\ ~x.github_repo /\ ~x.github_token} :
            InitSingle(s, a)
    /\ \E seed \in Stores({1}, {4}, {2020}, {"PC"}, {7}) :
            InitRemote(GamesOf(seed, wikidata))
    /\ InitRun

\* One run writing the CSV file, every knowledge base up to MaxBindings bindings.
InitWikidata ==
    /\ wikidata \in KnowledgeBases
    /\ \E s \in WikidataStores, a \in {x \in ArgSets : x.output_filename /\ ~x.github_repo /\ ~x.github_token} :
            InitSingle(s, a)
    /\ \E seed \in Stores({1}, {4}, {2020}, {"PC"}, {7}) :
            InitRemote(GamesOf(seed, <<>>))
    /\ InitRun

\* if github_repo and github_token: of main, the condition of the publish.
UploadConfigured_either(a) == a.github_repo \/ a.github_token

UploadConfigured(a) == a.github_repo /\ a.github_token

\* ----------------------------------------------------------------- actions
\* An exception nothing catches: the traceback goes to stderr and the process
\* ends with status 1.
Raise(r, exc, why, err) ==
    /\ pc' = [pc EXCEPT ![r] = "failed"]
    /\ error' = [error EXCEPT ![r] = exc]
    /\ cause' = [cause EXCEPT ![r] = why]
    /\ stderr' = [stderr EXCEPT ![r] = Append(err, [msg |-> "Traceback", exc |-> exc])]

Called(r, call) == log' = [log EXCEPT ![r] = Append(@, call)]

\* games = list(_load_gametrack_games()): the identifier query, the
\* knowledge-base request, then the row loop.
Load(r) ==
    /\ pc[r] = "load"
    /\ LET rows == store[r]
           igdb_ids == {rows[i].ZGAMEID : i \in DOMAIN rows}
       IN IF rows = <<>>
          THEN \* assert len(igdb_ids_str) > 1
               /\ Raise(r, "AssertionError", "empty_store", stderr[r])
               /\ UNCHANGED <<wikidata_items, games, log, faults, exitcode>>
          ELSE \E fault \in {"none"} \cup FaultChoices :
               IF fault # "none"
               THEN /\ Raise(r, fault, CauseOfFault(fault), stderr[r])
                    /\ Called(r, "sparql")
                    /\ faults' = faults + 1
                    /\ UNCHANGED <<wikidata_items, games, exitcode>>
               ELSE LET items == _load_wikidata_items(SparqlAnswer(wikidata, igdb_ids))
                        loaded == _load_gametrack_games(rows, items, <<>>)
                    IN /\ wikidata_items' = [wikidata_items EXCEPT ![r] = items]
                       /\ Called(r, "sparql")
                       /\ UNCHANGED <<faults, exitcode>>
                       /\ IF loaded.raised
                          THEN /\ Raise(r, "KeyError", "unmapped_status", stderr[r])
                               /\ UNCHANGED games
                          ELSE /\ games' = [games EXCEPT ![r] = loaded.games]
                               /\ pc' = [pc EXCEPT ![r] = "write_csv"]
                               /\ UNCHANGED <<error, cause, stderr>>
    /\ UNCHANGED <<inputVars, csvfile, metricsfile, shaVars, remoteVars, done_before>>

\* if filename := getattr(args, "output_filename", None): ...
WriteOutput(r) ==
    /\ pc[r] = "write_csv"
    /\ IF args[r].output_filename
       THEN /\ csvfile' = [csvfile EXCEPT ![r] =
                              [written |-> TRUE, text |-> _write_csv(games[r])]]
            /\ stderr' = [stderr EXCEPT ![r] =
                              Append(@, [msg |-> "Wrote rows", n |-> Len(games[r])])]
            /\ exitcode' = [exitcode EXCEPT ![r] = 0]
       ELSE UNCHANGED <<csvfile, stderr, exitcode>>
    /\ pc' = [pc EXCEPT ![r] = "write_metrics"]
    /\ UNCHANGED <<inputVars, wikidata_items, games, metricsfile, error, cause,
                   log, shaVars, remoteVars, faults, done_before>>

\* if filename := getattr(args, "metrics_filename", None): ... and then
\* if github_repo and github_token: ... exit(exitcode)
WriteMetrics(r) ==
    /\ pc[r] = "write_metrics"
    /\ LET m == _write_prom_metrics(games[r])
           upload == UploadConfigured(args[r])
       IN IF ~args[r].metrics_filename
          THEN /\ pc' = [pc EXCEPT ![r] = IF upload THEN "create_blob" ELSE "done"]
               /\ UNCHANGED <<metricsfile, exitcode, error, cause, stderr>>
          ELSE IF m.raised
          THEN /\ metricsfile' = [metricsfile EXCEPT ![r] =
                                     [written |-> TRUE, series |-> {}, count |-> 0]]
               /\ Raise(r, "KeyError", "metrics_key", stderr[r])
               /\ UNCHANGED exitcode
          ELSE /\ metricsfile' = [metricsfile EXCEPT ![r] =
                                     [written |-> TRUE, series |-> m.series,
                                      count |-> m.count]]
               /\ exitcode' = [exitcode EXCEPT ![r] = 0]
               /\ pc' = [pc EXCEPT ![r] = IF upload THEN "create_blob" ELSE "done"]
               /\ UNCHANGED <<error, cause, stderr>>
    /\ UNCHANGED <<inputVars, wikidata_items, games, csvfile, log, shaVars,
                   remoteVars, faults, done_before>>

\* A remote-repository call that fails: urlopen raises and nothing catches it.
CallFails(r, call, fault, err) ==
    /\ Raise(r, fault, CauseOfFault(fault), err)
    /\ Called(r, call)
    /\ faults' = faults + 1
    /\ UNCHANGED <<exitcode, shaVars, remoteVars>>

\* _upload_github up to _gh_create_blob: the CSV text into a buffer, the
\* "Uploading" message, POST /git/blobs.
CreateBlob(r) ==
    /\ pc[r] = "create_blob"
    /\ LET gamedata == _write_csv(games[r])
           err == Append(stderr[r], [msg |-> "Uploading games", n |-> Len(games[r])])
       IN \E fault \in {"none"} \cup FaultChoices :
          IF fault # "none" THEN CallFails(r, "create_blob", fault, err)
          ELSE /\ blob_sha' = [blob_sha EXCEPT ![r] = GitBlobSha(gamedata)]
               /\ blobs' = blobs \cup {GitBlobSha(gamedata)}
               /\ stderr' = [stderr EXCEPT ![r] = err]
               /\ Called(r, "create_blob")
               /\ pc' = [pc EXCEPT ![r] = NextStep("create_blob")]
               /\ UNCHANGED <<endVars, faults, previous_commit_sha, previous_tree_sha,
                              new_tree_sha, new_commit_sha, result, branch, commits,
                              trees>>
    /\ done_before' = [done_before EXCEPT ![r] = {p \in Runs : pc[p] = "done"}]
    /\ UNCHANGED <<inputVars, localVars>>

\* _gh_branch_sha, first request: GET /git/ref/heads/data.
GetRef(r) ==
    /\ pc[r] = "get_ref"
    /\ \E fault \in {"none"} \cup FaultChoices :
          IF fault # "none" THEN CallFails(r, "get_ref", fault, stderr[r])
          ELSE /\ previous_commit_sha' = [previous_commit_sha EXCEPT ![r] = branch]
               /\ Called(r, "get_ref")
               /\ pc' = [pc EXCEPT ![r] = NextStep("get_ref")]
               /\ UNCHANGED <<endVars, stderr, faults, blob_sha, previous_tree_sha,
                              new_tree_sha, new_commit_sha, result, remoteVars>>
    /\ UNCHANGED <<inputVars, localVars, done_before>>

\* _gh_branch_sha, second request: GET /git/commits/{commit_sha}.
GetCommit(r) ==
    /\ pc[r] = "get_commit"
    /\ \E fault \in {"none"} \cup FaultChoices :
          IF fault # "none" THEN CallFails(r, "get_commit", fault, stderr[r])
          ELSE /\ previous_tree_sha' = [previous_tree_sha EXCEPT ![r] =
                                           CommitOf(commits, previous_commit_sha[r]).tree]
               /\ Called(r, "get_commit")
               /\ pc' = [pc EXCEPT ![r] = NextStep("get_commit")]
               /\ UNCHANGED <<endVars, stderr, faults, blob_sha, previous_commit_sha,
                              new_tree_sha, new_commit_sha, result, remoteVars>>
    /\ UNCHANGED <<inputVars, localVars, done_before>>

\* _gh_create_tree and the comparison that follows it in _gh_commit_tree; an
\* unchanged tree returns through _upload_github to main: exitcode = 0, exit.
CreateTree(r) ==
    /\ pc[r] = "create_tree"
    /\ \E fault \in {"none"} \cup FaultChoices :
          IF fault # "none" THEN CallFails(r, "create_tree", fault, stderr[r])
          ELSE LET sha == GitTreeSha(UploadTree(blob_sha[r]))
               IN /\ new_tree_sha' = [new_tree_sha EXCEPT ![r] = sha]
                  /\ trees' = trees \cup {sha}
                  /\ Called(r, "create_tree")
                  /\ IF TreeUnchanged(previous_commit_sha[r], previous_tree_sha[r], sha)
                     THEN /\ stderr' = [stderr EXCEPT ![r] =
                                           Append(@, [msg |-> "already", sha |-> sha])]
                          /\ result' = [result EXCEPT ![r] =
                                           UnchangedReturn(previous_commit_sha[r], sha)]
                          /\ exitcode' = [exitcode EXCEPT ![r] = 0]
                          /\ pc' = [pc EXCEPT ![r] = "done"]
                     ELSE /\ pc' = [pc EXCEPT ![r] = NextStep("create_tree")]
                          /\ UNCHANGED <<stderr, result, exitcode>>
                  /\ UNCHANGED <<error, cause, faults, blob_sha, previous_commit_sha,
                                 previous_tree_sha, new_commit_sha, branch, commits,
                                 blobs>>
    /\ UNCHANGED <<inputVars, localVars, done_before>>

\* _gh_create_commit: POST /git/commits.
CreateCommit(r) ==
    /\ pc[r] = "create_commit"
    /\ \E fault \in {"none"} \cup FaultChoices :
          IF fault # "none" THEN CallFails(r, "create_commit", fault, stderr[r])
          ELSE /\ commits' = Append(commits,
                                    [tree |-> new_tree_sha[r],
                                     parents |-> CommitParents(previous_commit_sha[r]),
                                     message |-> "Update data"])
               /\ new_commit_sha' = [new_commit_sha EXCEPT ![r] =
                                        GitCommitSha(Len(commits) + 1)]
               /\ Called(r, "create_commit")
               /\ pc' = [pc EXCEPT ![r] = NextStep("create_commit")]
               /\ UNCHANGED <<endVars, stderr, faults, blob_sha, previous_commit_sha,
                              previous_tree_sha, new_tree_sha, result, branch, trees,
                              blobs>>
    /\ UNCHANGED <<inputVars, localVars, done_before>>

\* _gh_update_branch and the return through _gh_commit_tree and _upload_github
\* to main: exitcode = 0, exit. A refused update is a non-2xx answer.
UpdateRef(r) ==
    /\ pc[r] = "update_ref"
    /\ \E fault \in {"none"} \cup FaultChoices :
          IF fault # "none" THEN CallFails(r, "update_ref", fault, stderr[r])
          ELSE /\ Called(r, "update_ref")
               /\ UNCHANGED <<faults, blob_sha, previous_commit_sha, previous_tree_sha,
                              new_tree_sha, new_commit_sha, commits, trees, blobs>>
               /\ IF RefUpdateAccepted(UpdateBranchForce, commits, branch,
                                       new_commit_sha[r])
                  THEN /\ branch' = new_commit_sha[r]
                       /\ stderr' = [stderr EXCEPT ![r] =
                                        Append(@, [msg |-> "Updated",
                                                   sha |-> new_commit_sha[r]])]
                       /\ result' = [result EXCEPT ![r] = new_commit_sha[r]]
                       /\ exitcode' = [exitcode EXCEPT ![r] = 0]
                       /\ pc' = [pc EXCEPT ![r] = "done"]
                       /\ UNCHANGED <<error, cause>>
                  ELSE /\ Raise(r, "HTTPError", "ref_rejected", stderr[r])
                       /\ UNCHANGED <<branch, result, exitcode>>
    /\ UNCHANGED <<inputVars, localVars, done_before>>

\* ------------------------------------------------------------ specifications
Next ==
    \E r \in Runs :
        \/ Load(r)
        \/ WriteOutput(r)
        \/ WriteMetrics(r)
        \/ CreateBlob(r)
        \/ GetRef(r)
        \/ GetCommit(r)
        \/ CreateTree(r)
        \/ CreateCommit(r)
        \/ UpdateRef(r)

\* The steps of main() before the publish.
NextLocal ==
    \E r \in Runs :
        \/ Load(r)
        \/ WriteOutput(r)
        \/ WriteMetrics(r)

Spec == Init /\ [][Next]_vars

SpecExport == InitExport /\ [][Next]_vars

SpecMetrics == InitMetrics /\ [][NextLocal]_vars

SpecWikidata == InitWikidata /\ [][NextLocal]_vars

\* The status the process of run r ended with.
Terminated(r) == pc[r] \in {"done", "failed"}

ExitStatus(r) == IF pc[r] = "failed" THEN 1 ELSE exitcode[r]

\* ------------------------------------------------------------------- claims
\* The remote-repository calls run r has made.
Calls(r) == Range(log[r])

\* Run r compared its new tree with the tree it read and found them equal.
SawUnchangedTree(r) ==
    /\ new_tree_sha[r] # NoSha
    /\ new_tree_sha[r] = previous_tree_sha[r]

\* Some step of run r was taken.
StepOf(r) == pc'[r] # pc[r]

\* C1: in _gh_commit_tree, whenever the new tree's id equals the tree id read
\* from the branch, the publish makes no create-commit and no update-ref
\* call, its step leaves the branch tip (and the commits) as they were, and
\* it returns the commit id it read.
C1_UnchangedTreeIsNoOp ==
    [][\A r \in Runs :
          SawUnchangedTree(r)' =>
              /\ "create_commit" \notin Calls(r)'
              /\ "update_ref" \notin Calls(r)'
              /\ result'[r] = previous_commit_sha'[r]
              /\ pc'[r] = "done"
              /\ StepOf(r) => (branch' = branch /\ commits' = commits)]_vars

C1_Witness ==
    \E r \in Runs :
        /\ SawUnchangedTree(r)
        /\ pc[r] = "done"
        /\ result[r] = previous_commit_sha[r]
        /\ branch = previous_commit_sha[r]

\* C2: publish idempotence. When a run publishes after another run with the
\* same records has ended its publish, and the tip it reads is the commit that
\* run reported (no other writer in between), both report the same commit id
\* and the second makes no create-commit and no update-ref call.
C2_PublishIdempotent ==
    \A p, q \in Runs :
        ( /\ p # q
          /\ pc[p] = "done" /\ pc[q] = "done"
          /\ p \in done_before[q]
          /\ games[p] = games[q]
          /\ previous_commit_sha[q] = result[p] )
        => /\ result[q] = result[p]
           /\ "create_commit" \notin Calls(q)
           /\ "update_ref" \notin Calls(q)

C2_Witness ==
    \E p, q \in Runs :
        /\ p # q
        /\ pc[p] = "done" /\ pc[q] = "done"
        /\ p \in done_before[q]
        /\ games[p] = games[q]
        /\ "update_ref" \in Calls(p)
        /\ result[p] = new_commit_sha[p]
        /\ previous_commit_sha[q] = result[p]
        /\ result[q] = result[p]

\* Run r's update of the branch was accepted.
Updated(r) == new_commit_sha[r] # NoSha /\ result[r] = new_commit_sha[r]

\* Runs p and q read the same tip and built different trees.
SameTipOtherTree(p, q) ==
    /\ p # q
    /\ previous_commit_sha[p] # NoSha
    /\ previous_commit_sha[p] = previous_commit_sha[q]
    /\ new_tree_sha[p] # NoSha /\ new_tree_sha[q] # NoSha
    /\ new_tree_sha[p] # new_tree_sha[q]

\* C3: optimistic concurrency. Of two publishers that read the same tip and
\* build different trees at most one update-ref is accepted; once one is, the
\* other's update-ref is refused and its run fails; and the tip is only ever
\* replaced by a commit whose sole parent is the tip at that moment.
C3_NonForcingUpdate ==
    [][/\ \A p, q \in Runs :
            SameTipOtherTree(p, q)' =>
                /\ ~(Updated(p)' /\ Updated(q)')
                /\ (Updated(p)' /\ "update_ref" \in Calls(q)') =>
                        (pc'[q] = "failed" /\ error'[q] # "none" /\ branch' # new_commit_sha'[q])
       /\ branch' # branch => CommitOf(commits', branch').parents = <<branch>>]_vars

C3_Witness ==
    \E p, q \in Runs :
        /\ SameTipOtherTree(p, q)
        /\ Updated(p)
        /\ branch = new_commit_sha[p]
        /\ cause[q] = "ref_rejected"
        /\ pc[q] = "failed"

\* The calls to the remote repository (the knowledge-base request is not one).
RepoCalls ==
    {"create_blob", "get_ref", "get_commit", "create_tree", "create_commit",
     "update_ref"}

HasUnmappedStatus(r) == \E i \in DOMAIN store[r] : ~StatusMapped(store[r][i])

\* C4: a store with a row whose status code has no entry in the status table
\* aborts the export run with no partial output: no CSV file, no metrics file,
\* no call to the remote repository (which stays as it was), no record kept,
\* and a non-zero exit status, however many earlier rows decoded.
C4_UnmappedStatusAborts ==
    \A r \in Runs :
        HasUnmappedStatus(r) =>
            /\ pc[r] \in {"load", "failed"}
            /\ games[r] = <<>>
            /\ csvfile[r] = NotWritten
            /\ metricsfile[r] = NotWritten
            /\ Calls(r) \cap RepoCalls = {}
            /\ Len(commits) = 1 /\ branch = GitCommitSha(1)
            /\ Cardinality(trees) = 1 /\ Cardinality(blobs) = 1
            /\ Terminated(r) => ExitStatus(r) # 0

C4_Witness ==
    \E r \in Runs :
        /\ Len(store[r]) = 3
        /\ StatusMapped(store[r][1]) /\ StatusMapped(store[r][2])
        /\ ~StatusMapped(store[r][3])
        /\ args[r].output_filename /\ args[r].metrics_filename
        /\ args[r].github_repo /\ args[r].github_token
        /\ pc[r] = "failed" /\ error[r] = "KeyError"
        /\ csvfile[r] = NotWritten

\* Run r has gone through the metrics step of main() with a metrics filename.
MetricsStepTaken(r) ==
    /\ args[r].metrics_filename
    /\ games[r] # <<>>
    /\ pc[r] \notin {"idle", "load", "write_csv", "write_metrics"}

SeriesOf(r, family) == {x \in metricsfile[r].series : x.family = family}

YearsOf(r) == {games[r][i].release_year : i \in DOMAIN games[r]}

PlatformsOf(r) == {games[r][i].owned_platform : i \in DOMAIN games[r]}

\* C5: metrics cardinality. For a non-empty record set with N release years
\* and M platforms the file holds exactly N x M x 6 gametrack_game_count
\* series and N x 10 gametrack_game_rating series, one for each combination,
\* those with count zero too.
C5_MetricsCardinality ==
    \A r \in Runs :
        MetricsStepTaken(r) =>
            LET N == Cardinality(YearsOf(r))
                M == Cardinality(PlatformsOf(r))
            IN /\ pc[r] # "failed"
               /\ metricsfile[r].written
               /\ Cardinality(SeriesOf(r, "gametrack_game_count")) = N * M * 6
               /\ Cardinality(SeriesOf(r, "gametrack_game_rating")) = N * 10
               /\ metricsfile[r].count = N * M * 6 + N * 10
               /\ \A y \in YearsOf(r), p \in PlatformsOf(r), st \in GAME_STATUS :
                    Cardinality({x \in SeriesOf(r, "gametrack_game_count") :
                        x.year = y /\ x.platform = p /\ x.status = st}) = 1
               /\ \A y \in YearsOf(r), rt \in 1..10 :
                    Cardinality({x \in SeriesOf(r, "gametrack_game_rating") :
                        x.year = y /\ x.rating = rt}) = 1

C5_Witness ==
    \E r \in Runs :
        /\ MetricsStepTaken(r)
        /\ metricsfile[r].written
        /\ Cardinality(YearsOf(r)) = 2 /\ Cardinality(PlatformsOf(r)) = 2
        /\ Cardinality(SeriesOf(r, "gametrack_game_count")) = 24
        /\ \E x \in SeriesOf(r, "gametrack_game_count") : x.value = 0
        /\ \E x \in SeriesOf(r, "gametrack_game_count") : x.value = 1

RECURSIVE SumValues(_)
SumValues(S) ==
    IF S = {} THEN 0
    ELSE LET x == CHOOSE e \in S : TRUE IN x.value + SumValues(S \ {x})

\* C6: a record with user rating 0 adds to no rating series; a record with
\* rating r in 1..10 and release year y adds one to the (year=y, rating=r)
\* series and to no other; so the rating series of a year sum to the number of
\* rated records of that year.
C6_RatingSeries ==
    \A r \in Runs :
        MetricsStepTaken(r) =>
            /\ pc[r] # "failed"
            /\ metricsfile[r].written
            /\ \A x \in SeriesOf(r, "gametrack_game_rating") :
                 /\ x.rating \in 1..10
                 /\ x.value = Cardinality({i \in DOMAIN games[r] :
                        /\ games[r][i].release_year = x.year
                        /\ games[r][i].user_rating = x.rating})
            /\ \A y \in YearsOf(r) :
                 SumValues({x \in SeriesOf(r, "gametrack_game_rating") : x.year = y})
                    = Cardinality({i \in DOMAIN games[r] :
                        /\ games[r][i].release_year = y
                        /\ games[r][i].user_rating # 0})

C6_Witness ==
    \E r \in Runs :
        /\ MetricsStepTaken(r)
        /\ metricsfile[r].written
        /\ \E i, j \in DOMAIN games[r] :
            /\ games[r][i].user_rating = 0 /\ games[r][i].release_year = 2019
            /\ games[r][j].user_rating = 7 /\ games[r][j].release_year = 2020
        /\ \E x \in SeriesOf(r, "gametrack_game_rating") :
            x.year = 2020 /\ x.rating = 7 /\ x.value = 1
        /\ \A x \in SeriesOf(r, "gametrack_game_rating") : x.year = 2019 => x.value = 0

\* What the knowledge base answered run r.
Answer(r) ==
    SparqlAnswer(wikidata, {store[r][i].ZGAMEID : i \in DOMAIN store[r]})

\* The answer holds more than one external identifier for a local identifier.
HasDuplicateMatch(r) ==
    \E i, j \in DOMAIN Answer(r) :
        /\ i < j
        /\ Answer(r)[i].igdb_id = Answer(r)[j].igdb_id
        /\ Answer(r)[i].item # Answer(r)[j].item

\* The last binding of the answer for the identifier id.
LastSeen(r, id) ==
    LET at == {i \in DOMAIN Answer(r) : Answer(r)[i].igdb_id = id}
    IN Answer(r)[CHOOSE i \in at : \A j \in at : j <= i].item

\* _load_wikidata_items has returned in run r.
Reconciled(r) ==
    /\ pc[r] \notin {"idle", "load"}
    /\ cause[r] \notin {"empty_store", "remote_http", "remote_network"}

\* The part of C7 the code keeps: duplicates do not fail the run and the last
\* binding wins.
LastSeenKept ==
    \A r \in Runs :
        Reconciled(r) =>
            /\ error[r] = "none"
            /\ DOMAIN wikidata_items[r] = {Answer(r)[i].igdb_id : i \in DOMAIN Answer(r)}
            /\ \A id \in DOMAIN wikidata_items[r] : wikidata_items[r][id] = LastSeen(r, id)

\* C7: when the knowledge-base result holds more than one external identifier
\* for a local identifier, _load_wikidata_items does not fail, the mapping
\* holds the last-seen identifier, and a data-quality warning is emitted.
C7_DuplicateWarned ==
    \A r \in Runs :
        (Reconciled(r) /\ HasDuplicateMatch(r)) =>
            /\ error[r] = "none"
            /\ \A id \in DOMAIN wikidata_items[r] : wikidata_items[r][id] = LastSeen(r, id)
            /\ \E i \in DOMAIN stderr[r] : stderr[r][i].msg = "Warning"

\* How a run ended: the exit status and the exception on the traceback.
Outcome(r) == [status |-> ExitStatus(r), exception |-> error[r]]

\* How a run ends when a remote call fails with the exception e.
RemoteFailureOutcome(e) == [status |-> 1, exception |-> e]

\* Every run a failed remote call ended has one of the remote-failure outcomes.
RemoteFailuresEndSo ==
    \A r \in Runs :
        cause[r] \in {"remote_http", "remote_network"} =>
            \E e \in RemoteErrors : Outcome(r) = RemoteFailureOutcome(e)

\* C8: a ref update refused because the branch moved is fatal for the run and
\* ends it in an outcome no other remote-call failure ends a run in.
C8_RejectionDistinct ==
    \A r \in Runs :
        cause[r] = "ref_rejected" =>
            /\ pc[r] = "failed"
            /\ ExitStatus(r) # 0
            /\ \A e \in RemoteErrors : Outcome(r) # RemoteFailureOutcome(e)
            /\ \A q \in Runs :
                 cause[q] \in {"remote_http", "remote_network"} => Outcome(q) # Outcome(r)

\* The publish of run r succeeded: _gh_commit_tree returned a commit id.
PublishSucceeded(r) == pc[r] = "done" /\ result[r] # NoSha

\* The object ids the messages of run r name.
ReportedShas(r) ==
    {stderr[r][i].sha :
        i \in {j \in DOMAIN stderr[r] : stderr[r][j].msg \in {"already", "Updated"}}}

\* The part of C9 the code keeps: the exit status.
ExitStatusRight ==
    \A r \in Runs :
        /\ pc[r] = "failed" => ExitStatus(r) # 0
        /\ PublishSucceeded(r) => ExitStatus(r) = 0
        /\ (PublishSucceeded(r) /\ Updated(r)) => result[r] \in ReportedShas(r)

\* C9: a run that meets a fatal condition ends with a non-zero status; a run
\* whose publish succeeds, with a new commit or with the tree unchanged, ends
\* with status zero and reports the resulting commit id (the new one, or the
\* existing one when the tree is unchanged).
C9_StatusAndReportedCommit ==
    \A r \in Runs :
        /\ pc[r] = "failed" => ExitStatus(r) # 0
        /\ PublishSucceeded(r) =>
              /\ ExitStatus(r) = 0
              /\ result[r] \in ReportedShas(r)

IsPrefix(s, t) == Len(s) <= Len(t) /\ \A i \in DOMAIN s : s[i] = t[i]

\* The remote-repository calls of run r, oldest first.
RepoLog(r) == SelectSeq(log[r], LAMBDA c : c \in RepoCalls)

\* Run r ended on a failed read of the branch (get-ref or get-commit).
ReadRefFailed(r) ==
    /\ pc[r] = "failed"
    /\ RepoLog(r) # <<>>
    /\ RepoLog(r)[Len(RepoLog(r))] \in {"get_ref", "get_commit"}

TimesCalled(r, call) == Cardinality({i \in DOMAIN log[r] : log[r][i] = call})

\* The runs that created the n-th commit of the repository.
CreatorsOf(n) == {r \in Runs : new_commit_sha[r] = GitCommitSha(n)}

\* C11: every commit the publisher created has exactly one parent, the commit
\* id its run read from the branch, and the tree its run built; a run reads
\* the branch tip at most once, exactly once when it got as far as building a
\* tree, and the tree it compares with is the tree of the commit it read,
\* which is the commit it then gives as the parent.
C11_OneParentOneReading ==
    /\ \A n \in 2..Len(commits) :
          /\ Cardinality(CreatorsOf(n)) = 1
          /\ \A r \in CreatorsOf(n) :
                /\ Len(commits[n].parents) = 1
                /\ commits[n].parents[1] = previous_commit_sha[r]
                /\ commits[n].tree = new_tree_sha[r]
                /\ new_tree_sha[r] # NoSha
    /\ \A r \in Runs :
          /\ TimesCalled(r, "get_ref") <= 1
          /\ TimesCalled(r, "get_commit") <= 1
          /\ previous_commit_sha[r] # NoSha =>
                /\ TimesCalled(r, "get_ref") = 1
                /\ previous_commit_sha[r] \in {GitCommitSha(n) : n \in DOMAIN commits}
          /\ previous_tree_sha[r] # NoSha =>
                /\ previous_commit_sha[r] # NoSha
                /\ previous_tree_sha[r] = CommitOf(commits, previous_commit_sha[r]).tree
          /\ new_tree_sha[r] # NoSha => previous_tree_sha[r] # NoSha
          /\ SawUnchangedTree(r) =>
                /\ new_tree_sha[r] = CommitOf(commits, previous_commit_sha[r]).tree
                /\ new_commit_sha[r] = NoSha

\* Two runs each created a commit on the tip they both read, and the branch
\* has since moved to one of the two commits.
C11_Witness ==
    \E p, q \in Runs :
        /\ p # q
        /\ new_commit_sha[p] # NoSha /\ new_commit_sha[q] # NoSha
        /\ previous_commit_sha[p] = previous_commit_sha[q]
        /\ branch = new_commit_sha[p]
        /\ CommitOf(commits, new_commit_sha[q]).parents = <<previous_commit_sha[q]>>

\* The sinks the options of run r ask for: a sink is configured when its
\* filename is given, the publish when repository and token are both given.
PublishAsked(r) == args[r].github_repo /\ args[r].github_token

SomeSinkAsked(r) ==
    args[r].output_filename \/ args[r].metrics_filename \/ PublishAsked(r)

\* The extraction of run r returned its records to main.
ExtractionSucceeded(r) == games[r] # <<>>

CsvCompleted(r) ==
    /\ csvfile[r] = [written |-> TRUE, text |-> _write_csv(games[r])]
    /\ [msg |-> "Wrote rows", n |-> Len(games[r])] \in Range(stderr[r])

MetricsCompleted(r) ==
    LET m == _write_prom_metrics(games[r])
    IN /\ ~m.raised
       /\ metricsfile[r] = [written |-> TRUE, series |-> m.series, count |-> m.count]

\* C12: a run that ends with status 0 had at least one of the three sinks
\* configured and completed every configured sink; a run whose extraction
\* succeeded with no sink configured writes no file, makes no repository
\* call, does not fail, and ends with status 1.
C12_ExitZeroNeedsCompletedSink ==
    \A r \in Runs :
        /\ (Terminated(r) /\ ExitStatus(r) = 0) =>
              /\ ExtractionSucceeded(r)
              /\ SomeSinkAsked(r)
              /\ args[r].output_filename => CsvCompleted(r)
              /\ args[r].metrics_filename => MetricsCompleted(r)
              /\ PublishAsked(r) => PublishSucceeded(r)
        /\ (ExtractionSucceeded(r) /\ ~SomeSinkAsked(r)) =>
              /\ csvfile[r] = NotWritten
              /\ metricsfile[r] = NotWritten
              /\ Calls(r) \cap RepoCalls = {}
              /\ pc[r] \in {"write_csv", "write_metrics", "done"}
              /\ exitcode[r] = 1
              /\ Terminated(r) => ExitStatus(r) = 1

\* A run given a repository but no token and no filename has ended: its
\* extraction succeeded, nothing was written, and the status is 1.
C12_Witness ==
    \E r \in Runs :
        /\ pc[r] = "done"
        /\ ExtractionSucceeded(r)
        /\ args[r].github_repo /\ ~args[r].github_token
        /\ ~SomeSinkAsked(r)
        /\ csvfile[r] = NotWritten /\ metricsfile[r] = NotWritten
        /\ ExitStatus(r) = 1

====
